---- MODULE Spec2Model ----
(***************************************************************************)
(* Parachute descent simulation: the three-stage trajectory engine as a    *)
(* state machine, in its three copies: FlightStages (capped inflation      *)
(* acceleration) and ParachuteFlightSimulation (uncapped) of               *)
(* src/flight_stages.py, and the FlightStages of the                       *)
(* parachute-oscillation-estimator package (uncapped).                     *)
(* Beside the engine: its get_state_at_time lookup, the oscillation        *)
(* estimator of src/Oscillations.py, the Parachute and Payload objects and *)
(* the snatch force of ForcesCalculator, the capped engine beside the      *)
(* uncapped one, and the engine built from a Parachute object, each under  *)
(* its own specification.                                                  *)
(*                                                                         *)
(* Python floats are modelled as exact rationals <<n, d>> in lowest terms  *)
(* with d > 0, so that the closed-form kinematics are computed term by     *)
(* term as the code computes them.  math.sqrt is modelled by the square    *)
(* root rounded down to the grid of the radicand's denominator.            *)
(***************************************************************************)
EXTENDS Integers, Sequences, FiniteSets, TLC

VARIABLES
    pc,           \* "new", "rejected", "ready", "loop", "done", "error"
    args,         \* the arguments the constructor was called with
    self,         \* the engine's fields, once constructed
    raised,       \* the exception that ended the last call, or "none"
    dt,           \* generate_trajectory's step argument
    v0, vt, a_infl,   \* generate_trajectory's locals computed before the loop
    t, z, x,      \* the loop's running time, altitude and horizontal position
    t_values, z_values, v_values, x_values, a_values,   \* the emitted lists
    stage_values, \* which branch of the if/elif/else computed each sample
    caller,       \* the method whose call is running or ran last
    time_query,   \* get_state_at_time's argument
    state,        \* the state dict get_state_at_time built
    warned,       \* whether get_state_at_time printed its [WARNING] line
    first_run,    \* what the engine's first generate_trajectory call returned
    tv,           \* what the last direct terminal_velocity() call returned
    parachute,    \* a Parachute object's attributes
    payload,      \* a Payload object's attributes
    pcall,        \* the last method call on the parachute or payload, with its result
    calc,         \* a ForcesCalculator object's attributes
    fcall,        \* the last snatch_force call, with its result
    estimator,    \* a ParachuteOscillationEstimator object's attributes
    osc,          \* what the estimator's simulate returned
    twin          \* what a FlightStages engine returned before the
                  \* ParachuteFlightSimulation of the same arguments was built

trajVars == <<pc, args, self, raised, dt, v0, vt, a_infl, t, z, x,
              t_values, z_values, v_values, x_values, a_values, stage_values>>
callVars == <<caller, time_query, state, warned, first_run, tv>>
objVars == <<parachute, payload, pcall>>
forceVars == <<calc, fcall>>
oscVars == <<estimator, osc>>
twinVars == <<twin>>

vars == <<trajVars, callVars, objVars, forceVars, oscVars, twinVars>>

(***************************************************************************)
(* Bounds of the model.                                                    *)
(***************************************************************************)
TMaxBound == 4      \* the largest simulation horizon t_max tried
DtDen == 2          \* the finest step tried is 1/DtDen

(***************************************************************************)
(* Exact rational arithmetic standing for the code's float arithmetic.     *)
(***************************************************************************)
Abs(i) == IF i < 0 THEN -i ELSE i

RECURSIVE GCD(_, _)
GCD(a, b) == IF b = 0 THEN a ELSE GCD(b, a % b)

Rat(n, d) ==
    LET s == IF d < 0 THEN -1 ELSE 1
        k == GCD(Abs(n), Abs(d))
    IN  <<(s * n) \div k, (s * d) \div k>>

Num(r) == r[1]
Den(r) == r[2]
LCM(a, b) == (a \div GCD(a, b)) * b

RInt(i) == <<i, 1>>
RNeg(a) == <<-Num(a), Den(a)>>
RAdd(a, b) ==
    LET l == LCM(Den(a), Den(b))
    IN  Rat(Num(a) * (l \div Den(a)) + Num(b) * (l \div Den(b)), l)
RSub(a, b) == RAdd(a, RNeg(b))
RMul(a, b) ==
    LET k1 == GCD(Abs(Num(a)), Den(b))
        k2 == GCD(Abs(Num(b)), Den(a))
        ka == IF k1 = 0 THEN 1 ELSE k1
        kb == IF k2 = 0 THEN 1 ELSE k2
    IN  Rat((Num(a) \div ka) * (Num(b) \div kb), (Den(a) \div kb) * (Den(b) \div ka))
RDiv(a, b) == RMul(a, IF Num(b) < 0 THEN <<-Den(b), -Num(b)>> ELSE <<Den(b), Num(b)>>)
RSq(a) == RMul(a, a)
RLt(a, b) ==
    LET l == LCM(Den(a), Den(b))
    IN  Num(a) * (l \div Den(a)) < Num(b) * (l \div Den(b))
RLe(a, b) == ~RLt(b, a)
RMin(a, b) == IF RLt(b, a) THEN b ELSE a
RMax(a, b) == IF RLt(a, b) THEN b ELSE a
RAbs(a) == <<Abs(Num(a)), Den(a)>>
Zero == RInt(0)
Half == Rat(1, 2)

\* The largest r in lo..hi with r*r <= n (lo*lo <= n is kept throughout).
RECURSIVE SqrtSearch(_, _, _)
SqrtSearch(n, lo, hi) ==
    IF lo >= hi THEN lo
    ELSE LET mid == (lo + hi + 1) \div 2
         IN  IF mid * mid <= n THEN SqrtSearch(n, mid, hi)
                               ELSE SqrtSearch(n, lo, mid - 1)
ISqrt(n) == SqrtSearch(n, 0, IF n < 46340 THEN n ELSE 46340)

\* math.sqrt of a non-negative rational: sqrt(n/d) = sqrt(n*d)/d, rounded down.
RSqrt(a) == Rat(ISqrt(Num(a) * Den(a)), Den(a))

(***************************************************************************)
(* Program constants.                                                      *)
(***************************************************************************)
g == Rat(981, 100)          \* Environment.g
CapFactor == 4              \* the 4 of "4 * self.g"

(***************************************************************************)
(* The argument values tried.                                              *)
(***************************************************************************)
Kinds == {"FlightStages", "ParachuteFlightSimulation", "EstimatorFlightStages"}
Z0Set == {RInt(0), RInt(30), RInt(1000)}
TMaxSet == {RInt(0), RInt(2), RInt(TMaxBound)}
TDeploySet == {RInt(-1), RInt(0), RInt(1), RInt(3)}
TInflationSet == {RInt(0), Half, RInt(2)}
MassSet == {RInt(-1), RInt(0), RInt(17)}
CdSet == {RInt(0), Rat(3, 2)}
AreaSet == {RInt(0), Rat(1, 4), RInt(8)}
RhoSet == {RInt(0), Rat(5, 4)}
SpeedSet == {RInt(1), Rat(5, 2)}
DtSet == {Rat(1, DtDen), RInt(1)}

ArgSet ==
    [kind : Kinds, z0 : Z0Set, t_max : TMaxSet, t_deploy : TDeploySet,
     t_inflation : TInflationSet, mass : MassSet, Cd : CdSet, area : AreaSet,
     rho : RhoSet, horizontal_speed : SpeedSet]

NoArgs == [kind |-> "none"]
NoEngine == [kind |-> "none"]
None == [kind |-> "none"]
\* A float that is None in the code: an argument left at its default, the
\* value of a call that raised.
Absent == <<-1, 0>>

(***************************************************************************)
(* Constructors.                                                           *)
(***************************************************************************)
FlightStagesInitNoDeployCheck(a) ==
    \/ RLe(a.z0, Zero)
    \/ RLe(a.t_max, Zero)
    \/ RLe(a.t_inflation, Zero)

\* FlightStages.__init__: the four checks that raise ValueError.
FlightStagesInitRaises(a) ==
    \/ RLe(a.z0, Zero)
    \/ RLe(a.t_max, Zero)
    \/ RLe(a.t_inflation, Zero)
    \/ RLt(a.t_deploy, Zero)

\* ParachuteFlightSimulation.__init__
ParachuteFlightSimulationInitRaises(a) ==
    \/ RLe(a.mass, Zero)
    \/ RLe(a.Cd, Zero) \/ RLe(a.area, Zero)
    \/ RLe(a.z0, Zero)
    \/ RLe(a.t_max, Zero)
    \/ RLe(a.t_inflation, Zero)
    \/ RLt(a.t_deploy, Zero)

\* FlightStages.__init__ of the parachute-oscillation-estimator package
EstimatorFlightStagesInitRaises(a) ==
    \/ RLe(a.mass, Zero)
    \/ RLe(a.Cd, Zero) \/ RLe(a.area, Zero)
    \/ RLe(a.z0, Zero)
    \/ RLe(a.t_max, Zero)
    \/ RLe(a.t_inflation, Zero)
    \/ RLt(a.t_deploy, Zero)

InitRaises(a) ==
    CASE a.kind = "FlightStages" -> FlightStagesInitRaises(a)
      [] a.kind = "ParachuteFlightSimulation" -> ParachuteFlightSimulationInitRaises(a)
      [] a.kind = "EstimatorFlightStages" -> EstimatorFlightStagesInitRaises(a)

\* The fields the constructor stores.  drag_area is the Cd * A the engine reads
\* (parachute.drag_area, or self.Cd * self.A).
StoredFields(a) ==
    [kind |-> a.kind, z0 |-> a.z0, t_max |-> a.t_max, t_deploy |-> a.t_deploy,
     t_inflation |-> a.t_inflation, horizontal_speed |-> a.horizontal_speed,
     g |-> g, rho |-> a.rho, total_mass |-> a.mass,
     drag_area |-> RMul(a.Cd, a.area)]

(***************************************************************************)
(* terminal_velocity.                                                      *)
(***************************************************************************)
TVNumerator(s) == RMul(RMul(RInt(2), s.total_mass), s.g)
\* self.parachute.drag_area: an engine built from argument values carries
\* the value as drag_area; an engine built from a Parachute object carries
\* the object and reads the attribute off it, if the object has it.
HasDragArea(s) == "parachute" \notin DOMAIN s \/ "drag_area" \in DOMAIN s.parachute
DragAreaOf(s) == IF "parachute" \in DOMAIN s THEN s.parachute.drag_area ELSE s.drag_area
TVDenominator(s) == RMul(s.rho, DragAreaOf(s))

\* The exception terminal_velocity ends with, or "none".
terminal_velocity_raises(s) ==
    IF ~HasDragArea(s) THEN "AttributeError"
    ELSE IF TVDenominator(s) = Zero THEN "ZeroDivisionError"
    ELSE IF RLt(RDiv(TVNumerator(s), TVDenominator(s)), Zero) THEN "ValueError"
    ELSE "none"

terminal_velocity(s) == RSqrt(RDiv(TVNumerator(s), TVDenominator(s)))

(***************************************************************************)
(* generate_trajectory: the locals computed before the loop.               *)
(***************************************************************************)
FreeFallEndVelocity(s) == RNeg(RMul(s.g, s.t_deploy))

\* FlightStages: min((v0 + terminal_velocity) / t_inflation, 4 * g)
CappedAcceleration(s, v, w) ==
    RMin(RDiv(RAdd(v, w), s.t_inflation), RMul(RInt(CapFactor), s.g))

\* ParachuteFlightSimulation: (-vt - v0) / t_inflation
UncappedAcceleration(s, v, w) == RDiv(RSub(RNeg(w), v), s.t_inflation)

\* The estimator package's FlightStages: (-terminal_velocity - v0) / t_inflation
EstimatorAcceleration(s, v, w) == RDiv(RSub(RNeg(w), v), s.t_inflation)

InflationAcceleration(s, v, w) ==
    CASE s.kind = "FlightStages" -> CappedAcceleration(s, v, w)
      [] s.kind = "ParachuteFlightSimulation" -> UncappedAcceleration(s, v, w)
      [] s.kind = "EstimatorFlightStages" -> EstimatorAcceleration(s, v, w)

(***************************************************************************)
(* generate_trajectory: the three branches of the loop body.               *)
(***************************************************************************)
InFreeFallInclusive(s, tt) == RLe(tt, s.t_deploy)
InFreeFall(s, tt) == RLt(tt, s.t_deploy)
InInflation(s, tt) == ~InFreeFall(s, tt) /\ RLt(tt, RAdd(s.t_deploy, s.t_inflation))

Stage(s, tt) ==
    IF InFreeFall(s, tt) THEN "free_fall"
    ELSE IF InInflation(s, tt) THEN "inflation"
    ELSE "terminal"

\* z0_infl = z0 - 0.5 * g * t_deploy**2
Z0Infl(s) == RSub(s.z0, RMul(RMul(Half, s.g), RSq(s.t_deploy)))

Z0TermNoHalf(s, v, a) ==
    RAdd(RSub(s.z0, RMul(RMul(Half, s.g), RSq(s.t_deploy))),
         RAdd(RMul(v, s.t_inflation), RMul(a, RSq(s.t_inflation))))

\* z0_term = z0 - 0.5*g*t_deploy**2 + (v0*t_inflation + 0.5*a_infl*t_inflation**2)
Z0Term(s, v, a) ==
    RAdd(RSub(s.z0, RMul(RMul(Half, s.g), RSq(s.t_deploy))),
         RAdd(RMul(v, s.t_inflation), RMul(RMul(Half, a), RSq(s.t_inflation))))

FreeFallZ(s, tt) == RSub(s.z0, RMul(RMul(Half, s.g), RSq(tt)))
\* The free-fall velocity taken at the end of the step (differs from
\* FreeFallV).
FreeFallVEndOfStep(s, tt) == RNeg(RMul(s.g, RAdd(tt, dt)))
FreeFallV(s, tt) == RNeg(RMul(s.g, tt))
FreeFallA(s) == RNeg(s.g)

InflationV(v, a, t_rel) == RAdd(v, RMul(a, t_rel))
InflationZ(s, v, a, t_rel) ==
    RAdd(RAdd(Z0Infl(s), RMul(v, t_rel)), RMul(RMul(Half, a), RSq(t_rel)))

TerminalVSign(w) == w
TerminalV(w) == RNeg(w)
TerminalZ(s, v, w, a, t_rel) == RAdd(Z0Term(s, v, a), RMul(TerminalV(w), t_rel))

\* The (z, v, a) the loop body computes at time tt.
BodyZ(s, v, w, a, tt) ==
    IF InFreeFall(s, tt) THEN FreeFallZ(s, tt)
    ELSE IF InInflation(s, tt) THEN InflationZ(s, v, a, RSub(tt, s.t_deploy))
    ELSE TerminalZ(s, v, w, a, RSub(tt, RAdd(s.t_deploy, s.t_inflation)))

BodyV(s, v, w, a, tt) ==
    IF InFreeFall(s, tt) THEN FreeFallV(s, tt)
    ELSE IF InInflation(s, tt) THEN InflationV(v, a, RSub(tt, s.t_deploy))
    ELSE TerminalV(w)

BodyA(s, a, tt) ==
    IF InFreeFall(s, tt) THEN FreeFallA(s)
    ELSE IF InInflation(s, tt) THEN a
    ELSE Zero

ClampMissing(zz) == zz

\* z_values.append(max(z, 0))
Clamp(zz) == RMax(zz, Zero)

LoopConditionLate == RLt(Zero, z) /\ RLe(RSub(t, dt), self.t_max)

\* while z > 0 and t <= self.t_max
LoopCondition == RLt(Zero, z) /\ RLe(t, self.t_max)

(***************************************************************************)
(* The state machine.                                                      *)
(***************************************************************************)
Init ==
    /\ pc = "new"
    /\ args = NoArgs
    /\ self = NoEngine
    /\ raised = "none"
    /\ dt = Zero
    /\ v0 = Zero /\ vt = Zero /\ a_infl = Zero
    /\ t = Zero /\ z = Zero /\ x = Zero
    /\ t_values = <<>> /\ z_values = <<>> /\ v_values = <<>>
    /\ x_values = <<>> /\ a_values = <<>> /\ stage_values = <<>>
    /\ caller = "none"
    /\ time_query = Zero
    /\ state = None
    /\ warned = FALSE
    /\ first_run = None
    /\ tv = None
    /\ parachute = None
    /\ payload = None
    /\ pcall = None
    /\ calc = None
    /\ fcall = None
    /\ estimator = None
    /\ osc = None
    /\ twin = None

\* FlightStages(...) / ParachuteFlightSimulation(...): the constructor call.
Construct ==
    /\ pc = "new"
    /\ \E a \in ArgSet :
        /\ args' = a
        /\ IF InitRaises(a)
           THEN pc' = "rejected" /\ raised' = "ValueError" /\ self' = NoEngine
           ELSE pc' = "ready" /\ raised' = "none" /\ self' = StoredFields(a)
    /\ UNCHANGED <<dt, v0, vt, a_infl, t, z, x,
                   t_values, z_values, v_values, x_values, a_values, stage_values>>
    /\ UNCHANGED <<callVars, objVars, forceVars, oscVars, twinVars>>

\* generate_trajectory(d) with the division guarded by a handler that carries
\* on with a terminal velocity of 0 (differs from GenerateBegin).
GenerateBeginSwallows(d) ==
    LET v == FreeFallEndVelocity(self)
        failed == terminal_velocity_raises(self)
        w == IF failed = "ZeroDivisionError" THEN Zero ELSE terminal_velocity(self)
    IN  /\ dt' = d
        /\ v0' = v
        /\ t_values' = <<>> /\ z_values' = <<>> /\ v_values' = <<>>
        /\ x_values' = <<>> /\ a_values' = <<>> /\ stage_values' = <<>>
        /\ IF failed = "ValueError"
           THEN /\ pc' = "error"
                /\ raised' = failed
                /\ UNCHANGED <<vt, a_infl, t, z, x>>
           ELSE /\ pc' = "loop"
                /\ raised' = "none"
                /\ vt' = w
                /\ a_infl' = InflationAcceleration(self, v, w)
                /\ t' = Zero
                /\ z' = self.z0
                /\ x' = Zero
        /\ UNCHANGED <<args, self>>

\* generate_trajectory starting from the x a previous call left (differs
\* from GenerateBegin).
GenerateBeginKeepsX(d) ==
    LET v == FreeFallEndVelocity(self)
        w == terminal_velocity(self)
    IN  /\ dt' = d
        /\ v0' = v
        /\ t_values' = <<>> /\ z_values' = <<>> /\ v_values' = <<>>
        /\ x_values' = <<>> /\ a_values' = <<>> /\ stage_values' = <<>>
        /\ IF terminal_velocity_raises(self) # "none"
           THEN /\ pc' = "error"
                /\ raised' = terminal_velocity_raises(self)
                /\ UNCHANGED <<vt, a_infl, t, z, x>>
           ELSE /\ pc' = "loop"
                /\ raised' = "none"
                /\ vt' = w
                /\ a_infl' = InflationAcceleration(self, v, w)
                /\ t' = Zero
                /\ z' = self.z0
                /\ x' = x
        /\ UNCHANGED <<args, self>>

\* The start of generate_trajectory(d), up to the while loop: v0, the
\* terminal velocity (which may raise), a_infl, empty lists, t = 0, z = z0,
\* x = 0.
GenerateBegin(d) ==
    LET v == FreeFallEndVelocity(self)
        w == terminal_velocity(self)
    IN  /\ dt' = d
        /\ v0' = v
        /\ t_values' = <<>> /\ z_values' = <<>> /\ v_values' = <<>>
        /\ x_values' = <<>> /\ a_values' = <<>> /\ stage_values' = <<>>
        /\ IF terminal_velocity_raises(self) # "none"
           THEN /\ pc' = "error"
                /\ raised' = terminal_velocity_raises(self)
                /\ UNCHANGED <<vt, a_infl, t, z, x>>
           ELSE /\ pc' = "loop"
                /\ raised' = "none"
                /\ vt' = w
                /\ a_infl' = InflationAcceleration(self, v, w)
                /\ t' = Zero
                /\ z' = self.z0
                /\ x' = Zero
        /\ UNCHANGED <<args, self>>

\* generate_trajectory(dt) called on a fresh engine.
GenerateStart ==
    /\ pc = "ready"
    /\ \E d \in DtSet : GenerateBegin(d)
    /\ caller' = "generate_trajectory"
    /\ UNCHANGED <<time_query, state, warned, first_run, tv>>
    /\ UNCHANGED <<objVars, forceVars, oscVars, twinVars>>

\* One iteration of the while loop.
\* x_values.append(x) placed before x += horizontal_speed * dt (differs from
\* AppendedX).
AppendedXBeforeStep(xold, xnew) == xold

\* The horizontal position a sample carries: x is stepped first, then
\* appended.
AppendedX(xold, xnew) == xnew

\* Where control goes when generate_trajectory returns its lists: back into
\* the method that called it, or to the user.
ReturnTo ==
    CASE caller = "get_state_at_time" -> "lookup"
      [] caller = "simulate" -> "oscillate"
      [] OTHER -> "done"

LoopIteration ==
    /\ pc = "loop"
    /\ LoopCondition
    /\ LET zn == BodyZ(self, v0, vt, a_infl, t)
           xn == RAdd(x, RMul(self.horizontal_speed, dt))
       IN  /\ z' = zn
           /\ x' = xn
           /\ t_values' = Append(t_values, t)
           /\ z_values' = Append(z_values, Clamp(zn))
           /\ v_values' = Append(v_values, BodyV(self, v0, vt, a_infl, t))
           /\ x_values' = Append(x_values, AppendedX(x, xn))
           /\ a_values' = Append(a_values, BodyA(self, a_infl, t))
           /\ stage_values' = Append(stage_values, Stage(self, t))
           /\ IF RLe(zn, Zero)
              THEN pc' = ReturnTo /\ t' = t
              ELSE pc' = "loop" /\ t' = RAdd(t, dt)
    /\ UNCHANGED <<args, self, raised, dt, v0, vt, a_infl>>
    /\ UNCHANGED <<callVars, objVars, forceVars, oscVars, twinVars>>

\* The loop condition fails: the function returns the lists.
LoopExit ==
    /\ pc = "loop"
    /\ ~LoopCondition
    /\ pc' = ReturnTo
    /\ UNCHANGED <<args, self, raised, dt, v0, vt, a_infl, t, z, x,
                   t_values, z_values, v_values, x_values, a_values, stage_values>>
    /\ UNCHANGED <<callVars, objVars, forceVars, oscVars, twinVars>>

Next == Construct \/ GenerateStart \/ LoopIteration \/ LoopExit

Spec == Init /\ [][Next]_vars

(***************************************************************************)
(* get_state_at_time, and further calls on an engine that has returned.    *)
(* state and warned belong to the last get_state_at_time call, tv to the   *)
(* last direct terminal_velocity call; first_run keeps what the engine's   *)
(* first generate_trajectory call returned.                                *)
(***************************************************************************)
QuerySet == {RInt(-1), Rat(1, 4), Half, Rat(7, 4), RInt(2), RInt(5)}

HasGetState == self.kind \in {"FlightStages", "EstimatorFlightStages"}

Remember ==
    IF first_run = None /\ pc = "done" /\ caller = "generate_trajectory"
    THEN [kind |-> "run", dt |-> dt, t |-> t_values, z |-> z_values,
          v |-> v_values, x |-> x_values, a |-> a_values]
    ELSE first_run

\* The first index at or after the query, as a sorted search gives it
\* (differs from ArgMin).
ArgBisect(ts, q) ==
    CHOOSE i \in 1..Len(ts) :
        /\ RLe(q, ts[i])
        /\ \A j \in 1..(i - 1) : RLt(ts[j], q)

\* np.abs(ts - q).argmin(): the first index where |ts[i] - q| is least.
ArgMin(ts, q) ==
    CHOOSE i \in 1..Len(ts) :
        /\ \A j \in 1..Len(ts) : RLe(RAbs(RSub(ts[i], q)), RAbs(RSub(ts[j], q)))
        /\ \A j \in 1..(i - 1) : RLt(RAbs(RSub(ts[i], q)), RAbs(RSub(ts[j], q)))

\* time_query >= t[-1] (differs from ExceedsInterval).
ExceedsIntervalInclusive(ts, q) == RLe(ts[Len(ts)], q)

\* time_query > t[-1]
ExceedsInterval(ts, q) == RLt(ts[Len(ts)], q)

\* generate_trajectory(dt) called again on an engine that has returned.
GenerateAgain ==
    /\ pc = "done"
    /\ \E d \in DtSet : GenerateBegin(d)
    /\ caller' = "generate_trajectory"
    /\ first_run' = Remember
    /\ time_query' = Zero /\ state' = None /\ warned' = FALSE /\ tv' = None
    /\ UNCHANGED <<objVars, forceVars, oscVars, twinVars>>

\* terminal_velocity() called directly.
TerminalVelocityCall ==
    /\ pc \in {"ready", "done"}
    /\ caller # "terminal_velocity"
    /\ caller' = "terminal_velocity"
    /\ first_run' = Remember
    /\ tv' = IF terminal_velocity_raises(self) # "none"
             THEN [kind |-> "raised", raised |-> terminal_velocity_raises(self),
                   value |-> Absent]
             ELSE [kind |-> "returned", raised |-> "none",
                   value |-> terminal_velocity(self)]
    /\ time_query' = Zero /\ state' = None /\ warned' = FALSE
    /\ UNCHANGED <<trajVars, objVars, forceVars, oscVars, twinVars>>

\* get_state_at_time(time_query, dt), first line: generate_trajectory(dt).
GetStateStart ==
    /\ pc \in {"ready", "done"}
    /\ HasGetState
    /\ \E d \in DtSet : GenerateBegin(d)
    /\ caller' = "get_state_at_time"
    /\ first_run' = Remember
    /\ time_query' = Zero /\ state' = None /\ warned' = FALSE /\ tv' = None
    /\ UNCHANGED <<objVars, forceVars, oscVars, twinVars>>

\* get_state_at_time, after the trajectory, where time_query is first read
\* (its value is drawn here): the warning and the last index when the query
\* exceeds the last sample time, the nearest index otherwise, then the state
\* dict.
GetStateFinish ==
    /\ pc = "lookup"
    /\ \E q \in QuerySet :
        LET idx == IF ExceedsInterval(t_values, q)
                   THEN Len(t_values)
                   ELSE ArgMin(t_values, q)
        IN  /\ time_query' = q
            /\ warned' = ExceedsInterval(t_values, q)
            /\ state' = [kind |-> "state",
                         time |-> t_values[idx],
                         altitude |-> z_values[idx],
                         vertical_speed |-> v_values[idx],
                         acceleration |-> a_values[idx],
                         horizontal_position |-> x_values[idx]]
    /\ pc' = "done"
    /\ UNCHANGED <<args, self, raised, dt, v0, vt, a_infl, t, z, x,
                   t_values, z_values, v_values, x_values, a_values, stage_values>>
    /\ UNCHANGED <<caller, first_run, tv>>
    /\ UNCHANGED <<objVars, forceVars, oscVars, twinVars>>

QueryNext ==
    \/ Construct \/ GenerateStart \/ GenerateAgain \/ TerminalVelocityCall
    \/ GetStateStart \/ LoopIteration \/ LoopExit \/ GetStateFinish

QuerySpec == Init /\ [][QueryNext]_vars

(***************************************************************************)
(* The capped and the uncapped engine of src/flight_stages.py on the same  *)
(* arguments: once FlightStages has returned, what it returned is kept and *)
(* a ParachuteFlightSimulation is built from the same argument values.     *)
(***************************************************************************)
ConstructTwin ==
    /\ pc = "done"
    /\ self.kind = "FlightStages"
    /\ twin = None
    /\ twin' = [kind |-> self.kind, dt |-> dt, v0 |-> v0, vt |-> vt,
                a_infl |-> a_infl, t |-> t_values, z |-> z_values,
                v |-> v_values, x |-> x_values, a |-> a_values]
    /\ LET a == [args EXCEPT !.kind = "ParachuteFlightSimulation"]
       IN  /\ args' = a
           /\ IF InitRaises(a)
              THEN pc' = "rejected" /\ raised' = "ValueError" /\ self' = NoEngine
              ELSE pc' = "ready" /\ raised' = "none" /\ self' = StoredFields(a)
    /\ caller' = "none"
    /\ UNCHANGED <<dt, v0, vt, a_infl, t, z, x,
                   t_values, z_values, v_values, x_values, a_values, stage_values>>
    /\ UNCHANGED <<time_query, state, warned, first_run, tv>>
    /\ UNCHANGED <<objVars, forceVars, oscVars>>

TwinNext ==
    \/ Construct \/ GenerateStart \/ LoopIteration \/ LoopExit \/ ConstructTwin

TwinSpec == Init /\ [][TwinNext]_vars

(***************************************************************************)
(* ParachuteOscillationEstimator (src/Oscillations.py) on a FlightStages   *)
(* engine.  numpy's sqrt of a negative number is NaN, with a warning and   *)
(* no exception; exp and cos are not evaluated, a sample of theta keeps    *)
(* its amplitude, its exponent and its angle.                              *)
(***************************************************************************)
Pi == Rat(355, 113)
NaN == <<0, 0>>
NumpySqrt(r) == IF RLt(r, Zero) THEN NaN ELSE RSqrt(r)
NanMul(a, b) == IF a = NaN \/ b = NaN THEN NaN ELSE RMul(a, b)
Deg2Rad(a) == RDiv(RMul(a, Pi), RInt(180))

ZetaSet == {Rat(3, 20), RInt(1), Rat(3, 2)}
OmegaSet == {Rat(4, 5)}
AngleSet == {RInt(5)}

\* np.arange(0, stop, step): ceil(stop/step) values 0, step, 2*step, ...
Ceil(r) == -((-Num(r)) \div Den(r))
Arange(stop, step) ==
    [i \in 1..Ceil(RDiv(stop, step)) |-> RMul(RInt(i - 1), step)]

DampedFrequency(e) ==
    NanMul(e.omega_n, NumpySqrt(RSub(RInt(1), RSq(e.zeta))))

Theta(e, times) ==
    [i \in 1..Len(times) |->
        [amplitude |-> e.theta0,
         exponent |-> RNeg(RMul(RMul(e.zeta, e.omega_n), times[i])),
         angle |-> NanMul(DampedFrequency(e), times[i])]]

\* ParachuteOscillationEstimator(parachute, flight_stages, damping_ratio,
\* natural_freq, initial_angle): stores its arguments and evaluates the
\* engine's terminal velocity, which may raise.
EstimatorInit ==
    /\ pc = "ready"
    /\ self.kind = "FlightStages"
    /\ estimator = None
    /\ caller = "none"
    /\ \E zeta \in ZetaSet, omega \in OmegaSet, angle \in AngleSet :
        IF terminal_velocity_raises(self) # "none"
        THEN /\ pc' = "error"
             /\ raised' = terminal_velocity_raises(self)
             /\ estimator' = None
        ELSE /\ pc' = "ready"
             /\ raised' = "none"
             /\ estimator' = [kind |-> "ParachuteOscillationEstimator",
                              zeta |-> zeta,
                              omega_n |-> omega,
                              theta0 |-> Deg2Rad(angle),
                              z0 |-> self.z0,
                              t_max |-> self.t_max,
                              terminal_velocity |-> terminal_velocity(self),
                              drag_area |-> self.drag_area]
    /\ caller' = "ParachuteOscillationEstimator"
    /\ UNCHANGED <<args, self, dt, v0, vt, a_infl, t, z, x,
                   t_values, z_values, v_values, x_values, a_values, stage_values>>
    /\ UNCHANGED <<time_query, state, warned, first_run, tv, osc, twinVars>>
    /\ UNCHANGED <<objVars, forceVars>>

\* simulate(dt), first line: the engine's generate_trajectory(dt).
SimulateStart ==
    /\ pc = "ready"
    /\ estimator # None
    /\ caller' = "simulate"
    /\ \E d \in DtSet : GenerateBegin(d)
    /\ UNCHANGED <<time_query, state, warned, first_run, tv>>
    /\ UNCHANGED <<objVars, forceVars, oscVars, twinVars>>

\* simulate(dt), after the trajectory: the time grid, the damped frequency,
\* the angle series, and the return of (t, theta_deg, z).
SimulateFinish ==
    /\ pc = "oscillate"
    /\ pc' = "done"
    /\ osc' = [t |-> Arange(estimator.t_max, dt),
               theta_deg |-> Theta(estimator, Arange(estimator.t_max, dt)),
               z |-> z_values]
    /\ UNCHANGED <<args, self, raised, dt, v0, vt, a_infl, t, z, x,
                   t_values, z_values, v_values, x_values, a_values, stage_values>>
    /\ UNCHANGED <<callVars, objVars, forceVars, estimator, twinVars>>

EstimatorNext ==
    \/ Construct \/ EstimatorInit \/ SimulateStart
    \/ LoopIteration \/ LoopExit \/ SimulateFinish

EstimatorSpec == Init /\ [][EstimatorNext]_vars

(***************************************************************************)
(* Parachute (src/parachute.py) and Payload (src/Payload.py).              *)
(***************************************************************************)
ParachuteShapes ==
    {"flat", "hemispherical", "conical", "ribbon", "reefed", "guide_surface", "square"}
PayloadShapes == {"cuboid", "cylinder", "sphere"}

\* str.lower() on the shape strings tried.
Lower(sh) ==
    CASE sh = "Square" -> "square"
      [] sh = "Sphere" -> "sphere"
      [] OTHER -> sh

ParachuteShapeArgs == ParachuteShapes \cup {"Square", "triangle"}
PayloadShapeArgs == PayloadShapes \cup {"Sphere", "cone"}
DiameterSet == {RInt(2), RInt(10)}
DragCoefficientSet == {Rat(4, 5), Rat(3, 2)}
LineLengthArgs == {Absent, RInt(5)}
InflationTimeArgs == {Absent, Zero, Half, RInt(2)}
OpeningCoefficientArgs == {Absent, Rat(9, 5)}
ParachuteMassArgs == {Absent, RInt(5)}
TimeSet == {RInt(-1), Zero, Rat(1, 4), Half, RInt(1), RInt(2), RInt(3)}
WidthSet == {Rat(1, 5)}
HeightSet == {Rat(1, 5), Half}
DepthArgs == {Absent, Rat(3, 10)}
PayloadMassSet == {RInt(12)}

\* shape_presets.get(shape.lower(), (1.5, 1.0)): <<Cx, t_inf>>.
estimate_opening_parameters(shape) ==
    CASE Lower(shape) = "flat" -> <<Rat(9, 5), Rat(7, 10)>>
      [] Lower(shape) = "hemispherical" -> <<Rat(3, 2), RInt(1)>>
      [] Lower(shape) = "conical" -> <<Rat(13, 10), Rat(6, 5)>>
      [] Lower(shape) = "ribbon" -> <<RInt(1), Rat(9, 5)>>
      [] Lower(shape) = "reefed" -> <<Rat(3, 5), RInt(2)>>
      [] Lower(shape) = "guide_surface" -> <<Rat(7, 5), RInt(1)>>
      [] Lower(shape) = "square" -> <<Rat(6, 5), RInt(1)>>
      [] OTHER -> <<Rat(3, 2), RInt(1)>>

\* ratios.get(shape.lower(), 1.2) * diameter.
estimate_suspension_line_length(diameter, shape) ==
    LET factor ==
            CASE Lower(shape) \in {"flat", "ribbon", "reefed"} -> RInt(1)
              [] Lower(shape) = "hemispherical" -> Rat(6, 5)
              [] Lower(shape) \in {"conical", "guide_surface"} -> Rat(13, 10)
              [] Lower(shape) = "square" -> Rat(11, 10)
              [] OTHER -> Rat(6, 5)
    IN  RMul(factor, diameter)

\* calculate_drag_area with the circular surface for every shape (differs
\* from calculate_drag_area).
CalculateDragAreaCircular(shape, diameter, drag_coefficient) ==
    RMul(drag_coefficient, RMul(RDiv(Pi, RInt(4)), RSq(diameter)))

\* calculate_drag_area: the value stored in self.area.
calculate_drag_area(shape, diameter, drag_coefficient) ==
    IF shape = "square"
    THEN RMul(drag_coefficient, RSq(diameter))
    ELSE RMul(drag_coefficient, RMul(RDiv(Pi, RInt(4)), RSq(diameter)))

\* Parachute(diameter, drag_coefficient, suspension_line_length, shape,
\* inflation_time, opening_force_coefficient, mass).
ParachuteInit ==
    /\ parachute = None /\ payload = None
    /\ \E diameter \in DiameterSet, drag_coefficient \in DragCoefficientSet,
          suspension_line_length \in LineLengthArgs, shape \in ParachuteShapeArgs,
          inflation_time \in InflationTimeArgs,
          opening_force_coefficient \in OpeningCoefficientArgs,
          mass \in ParachuteMassArgs :
        LET sh == Lower(shape)
            est == estimate_opening_parameters(sh)
            both == opening_force_coefficient # Absent /\ inflation_time # Absent
        IN  parachute' =
                [kind |-> "Parachute",
                 diameter |-> diameter,
                 drag_coefficient |-> drag_coefficient,
                 mass |-> mass,
                 shape |-> sh,
                 area |-> calculate_drag_area(sh, diameter, drag_coefficient),
                 suspension_line_length |->
                     IF suspension_line_length = Absent
                     THEN estimate_suspension_line_length(diameter, sh)
                     ELSE suspension_line_length,
                 opening_force_coefficient |->
                     IF ~both /\ opening_force_coefficient = Absent
                     THEN est[1] ELSE opening_force_coefficient,
                 inflation_time |->
                     IF ~both /\ inflation_time = Absent
                     THEN est[2] ELSE inflation_time]
    /\ UNCHANGED <<trajVars, callVars, payload, pcall, forceVars, oscVars, twinVars>>

\* get_inflated_drag_area with a linear ramp (differs from
\* get_inflated_drag_area).
GetInflatedDragAreaLinear(p, time) ==
    IF RLe(p.inflation_time, time)
    THEN [raised |-> "none", value |-> p.area]
    ELSE IF p.inflation_time = Zero
         THEN [raised |-> "ZeroDivisionError", value |-> Absent]
         ELSE [raised |-> "none",
               value |-> RMul(p.area, RDiv(time, p.inflation_time))]

\* get_inflated_drag_area(time): what the call returns or raises.
get_inflated_drag_area(p, time) ==
    IF RLe(p.inflation_time, time)
    THEN [raised |-> "none", value |-> p.area]
    ELSE IF p.inflation_time = Zero
         THEN [raised |-> "ZeroDivisionError", value |-> Absent]
         ELSE [raised |-> "none",
               value |-> RMul(p.area, RSq(RDiv(time, p.inflation_time)))]

is_fully_inflated(p, time) == RLe(p.inflation_time, time)

GetInflatedDragArea ==
    /\ parachute # None
    /\ \E time \in TimeSet :
        pcall' = [kind |-> "get_inflated_drag_area",
                  time |-> time,
                  raised |-> get_inflated_drag_area(parachute, time).raised,
                  value |-> get_inflated_drag_area(parachute, time).value]
    /\ UNCHANGED <<trajVars, callVars, parachute, payload, forceVars, oscVars, twinVars>>

IsFullyInflated ==
    /\ parachute # None
    /\ \E time \in TimeSet :
        pcall' = [kind |-> "is_fully_inflated",
                  time |-> time,
                  raised |-> "none",
                  value |-> is_fully_inflated(parachute, time)]
    /\ UNCHANGED <<trajVars, callVars, parachute, payload, forceVars, oscVars, twinVars>>

\* Payload(name, mass, shape, width, height, depth): the object's attributes.
PayloadObject(mass, shape, width, height, depth) ==
    [kind |-> "Payload",
     mass |-> mass,
     shape |-> Lower(shape),
     width |-> width,
     height |-> height,
     depth |-> IF depth # Absent THEN depth ELSE width]

PayloadInit ==
    /\ parachute = None /\ payload = None
    /\ \E mass \in PayloadMassSet, shape \in PayloadShapeArgs, width \in WidthSet,
          height \in HeightSet, depth \in DepthArgs :
        payload' = PayloadObject(mass, shape, width, height, depth)
    /\ UNCHANGED <<trajVars, callVars, parachute, pcall, forceVars, oscVars, twinVars>>

\* frontal_area(): what the call returns or raises.
frontal_area(p) ==
    CASE p.shape = "cuboid" ->
             [raised |-> "none", value |-> RMul(p.width, p.height)]
      [] p.shape \in {"cylinder", "sphere"} ->
             [raised |-> "none",
              value |-> RMul(Pi, RSq(RDiv(p.width, RInt(2))))]
      [] OTHER -> [raised |-> "ValueError", value |-> Absent]

FrontalArea ==
    /\ payload # None
    /\ pcall' = [kind |-> "frontal_area",
                 time |-> Zero,
                 raised |-> frontal_area(payload).raised,
                 value |-> frontal_area(payload).value]
    /\ UNCHANGED <<trajVars, callVars, parachute, payload, forceVars, oscVars, twinVars>>

ObjectNext ==
    \/ ParachuteInit \/ GetInflatedDragArea \/ IsFullyInflated
    \/ PayloadInit \/ FrontalArea

ObjectSpec == Init /\ [][ObjectNext]_vars

(***************************************************************************)
(* FlightStages built from a Parachute, a Payload and an Environment       *)
(* object, as src/Simulation.py and src/Oscillations.py build it.          *)
(***************************************************************************)
AltitudeSet == {Zero, RInt(1000)}
WindSet == {RInt(5)}

\* compute_density() of src/environmetn.py, tabulated to three decimals for
\* the altitudes tried (the pressure is a power with a fractional exponent).
compute_density(altitude) ==
    CASE altitude = Zero -> Rat(49, 40)
      [] altitude = RInt(1000) -> Rat(139, 125)

\* Environment(altitude, wind_horizontal=...): the attributes FlightStages
\* reads.
EnvironmentObject(altitude, wind_horizontal) ==
    [kind |-> "Environment",
     altitude |-> altitude,
     wind_horizontal |-> wind_horizontal,
     g |-> g,
     density |-> compute_density(altitude)]

\* FlightStages(payload, parachute, environment, t_max, t_deploy,
\* horizontal_speed) on the Parachute object that was constructed.
FlightStagesFromObjects ==
    /\ pc = "new"
    /\ parachute # None
    /\ \E mass \in PayloadMassSet, altitude \in AltitudeSet, wind \in WindSet,
          t_max \in {RInt(2)}, t_deploy \in {RInt(1)},
          horizontal_speed \in {Absent, RInt(1)} :
        LET pl == PayloadObject(mass, "cuboid", Rat(1, 5), Rat(1, 5), Absent)
            env == EnvironmentObject(altitude, wind)
        IN  /\ args' = [kind |-> "FlightStages", payload |-> pl, environment |-> env,
                        t_max |-> t_max, t_deploy |-> t_deploy,
                        horizontal_speed |-> horizontal_speed]
            /\ IF \/ RLe(env.altitude, Zero) \/ RLe(t_max, Zero)
                  \/ RLe(parachute.inflation_time, Zero) \/ RLt(t_deploy, Zero)
               THEN pc' = "rejected" /\ raised' = "ValueError" /\ self' = NoEngine
               ELSE IF parachute.mass = Absent
               THEN pc' = "rejected" /\ raised' = "TypeError" /\ self' = NoEngine
               ELSE /\ pc' = "ready"
                    /\ raised' = "none"
                    /\ self' = [kind |-> "FlightStages",
                                parachute |-> parachute,
                                z0 |-> env.altitude,
                                t_max |-> t_max,
                                t_deploy |-> t_deploy,
                                t_inflation |-> parachute.inflation_time,
                                horizontal_speed |->
                                    IF horizontal_speed # Absent
                                    THEN horizontal_speed ELSE env.wind_horizontal,
                                g |-> env.g,
                                rho |-> env.density,
                                total_mass |-> RAdd(pl.mass, parachute.mass)]
    /\ UNCHANGED <<dt, v0, vt, a_infl, t, z, x,
                   t_values, z_values, v_values, x_values, a_values, stage_values>>
    /\ UNCHANGED <<callVars, objVars, forceVars, oscVars, twinVars>>

IntegrationNext ==
    \/ ParachuteInit \/ FlightStagesFromObjects
    \/ TerminalVelocityCall \/ GenerateStart \/ EstimatorInit

IntegrationSpec == Init /\ [][IntegrationNext]_vars

(***************************************************************************)
(* ForcesCalculator (src/Forcecalculator.py).                              *)
(***************************************************************************)
AirDensitySet == {Rat(5, 4), Rat(11, 10)}
PayloadAreaSet == {Rat(1, 25)}
DeltaVSet == {RInt(-10), Zero, Rat(25, 2), RInt(80)}
LineLengthSet == {Zero, Rat(5, 2), RInt(5)}
StiffnessArgs == {Absent, RInt(20000), RInt(50000)}
LinesArgs == {Absent, RInt(1), RInt(8)}

\* ForcesCalculator(air_density, gravity, payload_name, payload_mass,
\* payload_area).
CalculatorInit ==
    /\ calc = None
    /\ \E air_density \in AirDensitySet, payload_mass \in PayloadMassSet,
          payload_area \in PayloadAreaSet :
        calc' = [kind |-> "ForcesCalculator",
                 rho |-> air_density,
                 g |-> g,
                 payload_name |-> "CubeSat-Alpha",
                 payload_mass |-> payload_mass,
                 payload_area |-> payload_area]
    /\ UNCHANGED <<trajVars, callVars, objVars, fcall, oscVars, twinVars>>

\* snatch_force with the elongation delta_v / line_length (differs from
\* snatch_force).
SnatchForceNoHalf(delta_v, line_length, stiffness, n_lines) ==
    LET k == IF stiffness = Absent THEN RInt(100000) ELSE stiffness
        n == IF n_lines = Absent THEN RInt(4) ELSE n_lines
    IN  IF line_length = Zero
        THEN [raised |-> "ZeroDivisionError", value |-> Absent]
        ELSE [raised |-> "none",
              value |-> RMul(RMul(n, k), RDiv(delta_v, line_length))]

\* snatch_force(delta_v, line_length, stiffness=1e5, n_lines=4): what the
\* call returns or raises.
snatch_force(delta_v, line_length, stiffness, n_lines) ==
    LET k == IF stiffness = Absent THEN RInt(100000) ELSE stiffness
        n == IF n_lines = Absent THEN RInt(4) ELSE n_lines
        elongation == RDiv(delta_v, RMul(RInt(2), line_length))
    IN  IF RMul(RInt(2), line_length) = Zero
        THEN [raised |-> "ZeroDivisionError", value |-> Absent]
        ELSE [raised |-> "none", value |-> RMul(RMul(n, k), elongation)]

SnatchForce ==
    /\ calc # None
    /\ \E delta_v \in DeltaVSet, line_length \in LineLengthSet,
          stiffness \in StiffnessArgs, n_lines \in LinesArgs :
        fcall' = [kind |-> "snatch_force",
                  delta_v |-> delta_v,
                  line_length |-> line_length,
                  stiffness |-> stiffness,
                  n_lines |-> n_lines,
                  raised |-> snatch_force(delta_v, line_length, stiffness, n_lines).raised,
                  value |-> snatch_force(delta_v, line_length, stiffness, n_lines).value]
    /\ UNCHANGED <<trajVars, callVars, objVars, calc, oscVars, twinVars>>

ForceNext == CalculatorInit \/ SnatchForce

ForceSpec == Init /\ [][ForceNext]_vars

(***************************************************************************)
(* Properties.                                                             *)
(***************************************************************************)
Generated == pc \in {"loop", "done"}
N == Len(t_values)
Samples == 1..N
IsFlightStages == self.kind = "FlightStages"
\* The spec's valid inputs: positive mass, drag area and density.
PhysicallyValid ==
    RLt(Zero, self.total_mass) /\ RLt(Zero, self.drag_area) /\ RLt(Zero, self.rho)
InflationEnd == RAdd(self.t_deploy, self.t_inflation)
StageRank(st) == CASE st = "free_fall" -> 1 [] st = "inflation" -> 2 [] OTHER -> 3

\* C1: every emitted sample is computed by the one phase its time selects
\* (free fall iff t < t_deploy, with acceleration -g; inflation iff
\* t_deploy <= t < t_deploy + t_inflation, with acceleration a_infl; terminal
\* descent iff t >= t_deploy + t_inflation, with acceleration 0), and along the
\* emitted sequence the phase never goes back to an earlier one.
C1_PhaseByTime ==
    /\ \A k \in Samples :
        /\ stage_values[k] = "free_fall" <=> RLt(t_values[k], self.t_deploy)
        /\ stage_values[k] = "inflation" <=>
               RLe(self.t_deploy, t_values[k]) /\ RLt(t_values[k], InflationEnd)
        /\ stage_values[k] = "terminal" <=> RLe(InflationEnd, t_values[k])
        /\ stage_values[k] = "free_fall" => a_values[k] = RNeg(self.g)
        /\ stage_values[k] = "inflation" => a_values[k] = a_infl
        /\ stage_values[k] = "terminal" => a_values[k] = Zero
    /\ \A k \in Samples :
        k < N => StageRank(stage_values[k]) <= StageRank(stage_values[k + 1])

C1_Witness ==
    /\ pc = "done"
    /\ {stage_values[k] : k \in Samples} = {"free_fall", "inflation", "terminal"}

\* C2: for every accepted configuration and every dt > 0 generate_trajectory
\* terminates with at most t_max/dt + 1 samples: the number of samples never
\* exceeds t_max/dt + 1, and every step of the sampling loop either returns
\* or appends one more sample, so the loop cannot run on (a call that ends in
\* terminal_velocity's exception has emitted none).
C2_SampleBound == N = 0 \/ RLe(RMul(RInt(N - 1), dt), self.t_max)

C2_LoopAdvances ==
    pc = "loop" => (pc' = "done" \/ (pc' = "loop" /\ Len(t_values') = N + 1))

C2_Terminates == [](C2_SampleBound) /\ [][C2_LoopAdvances]_vars

C2_Witness ==
    /\ pc = "done"
    /\ N >= 2
    /\ RLt(Zero, z_values[N])
    /\ RLt(self.t_max, RMul(RInt(N), dt))

\* C3: for every configuration the FlightStages constructor accepts the
\* emitted altitudes never increase from one sample to the next.
C3_AltitudeNonIncreasing ==
    IsFlightStages =>
        \A k \in Samples : k < N => RLe(z_values[k + 1], z_values[k])

\* C4: for every valid configuration the velocity formulas of FlightStages
\* agree at both phase boundaries: free fall and inflation at t = t_deploy,
\* inflation and terminal descent at t = t_deploy + t_inflation.
C4_VelocityContinuous ==
    (Generated /\ IsFlightStages /\ PhysicallyValid) =>
        /\ FreeFallV(self, self.t_deploy) = InflationV(v0, a_infl, Zero)
        /\ InflationV(v0, a_infl, self.t_inflation) = TerminalV(vt)

\* C5: the altitude formulas agree at both phase boundaries: free fall at
\* t = t_deploy equals inflation at t_rel = 0, and the terminal phase's start
\* altitude z0_term equals the inflation formula at t_rel = t_inflation.
C5_AltitudeContinuous ==
    Generated =>
        /\ FreeFallZ(self, self.t_deploy) = InflationZ(self, v0, a_infl, Zero)
        /\ Z0Term(self, v0, a_infl) = InflationZ(self, v0, a_infl, self.t_inflation)
        /\ TerminalZ(self, v0, vt, a_infl, Zero)
               = InflationZ(self, v0, a_infl, self.t_inflation)

C5_Witness ==
    /\ pc = "done"
    /\ IsFlightStages
    /\ RLt(Zero, self.t_deploy)
    /\ a_infl # Zero
    /\ \E k \in Samples : stage_values[k] = "terminal"

\* C6: for every valid configuration the inflation acceleration of
\* FlightStages never exceeds 4*g in magnitude.
C6_AccelerationCapped ==
    (Generated /\ IsFlightStages /\ PhysicallyValid) =>
        RLe(RAbs(a_infl), RMul(RInt(CapFactor), self.g))

\* C7: every sample emitted at t >= t_deploy + t_inflation has velocity
\* exactly -terminal_velocity() and acceleration exactly 0.
C7_TerminalVelocityHeld ==
    \A k \in Samples :
        RLe(InflationEnd, t_values[k]) =>
            /\ v_values[k] = RNeg(terminal_velocity(self))
            /\ a_values[k] = Zero

C7_Witness ==
    /\ N >= 2
    /\ RLt(Zero, vt)
    /\ RLe(InflationEnd, t_values[N - 1])

\* C8: every emitted altitude is >= 0; an altitude of 0 is emitted only as
\* the last sample (generation stops at the first sample at or below ground);
\* and a finished sequence whose last altitude is > 0 ended because the next
\* step time exceeds t_max.
C8_GroundStop ==
    /\ \A k \in Samples : RLe(Zero, z_values[k])
    /\ \A k \in Samples : k < N => RLt(Zero, z_values[k])
    /\ (pc = "loop" /\ N > 0) => RLt(Zero, z_values[N])
    /\ (pc = "done" /\ N > 0 /\ RLt(Zero, z_values[N])) =>
           RLt(self.t_max, RAdd(t_values[N], dt))

C8_Witness ==
    /\ pc = "done"
    /\ N >= 2
    /\ z_values[N] = Zero
    /\ RLt(z, Zero)
    /\ RLt(RAdd(t_values[N], dt), self.t_max)

\* C9: constructing the engine with z0 <= 0, t_max <= 0, t_inflation <= 0 or
\* t_deploy < 0 ends in ValueError: no engine exists and nothing is generated.
BadTiming(a) ==
    \/ RLe(a.z0, Zero) \/ RLe(a.t_max, Zero)
    \/ RLe(a.t_inflation, Zero) \/ RLt(a.t_deploy, Zero)

C9_ConstructorRejects ==
    (pc # "new" /\ BadTiming(args)) =>
        /\ pc = "rejected"
        /\ raised = "ValueError"
        /\ self = NoEngine
        /\ N = 0

C9_Witness ==
    /\ pc = "rejected"
    /\ args.kind = "FlightStages"
    /\ RLt(args.t_deploy, Zero)
    /\ RLt(Zero, args.z0) /\ RLt(Zero, args.t_max) /\ RLt(Zero, args.t_inflation)

\* C10: FlightStages rejects a non-positive total mass or a non-positive drag
\* area at construction.
C10_MassAndAreaRejected ==
    (pc # "new" /\ args.kind = "FlightStages"
       /\ (RLe(args.mass, Zero) \/ RLe(RMul(args.Cd, args.area), Zero))) =>
        pc = "rejected"

\* C11: when the air density or the drag area is zero, evaluating the
\* terminal velocity raises ZeroDivisionError (no inf or NaN is computed), and
\* a generate_trajectory call on such an engine ends in that error before the
\* sampling loop: it has emitted no sample.
ZeroDensityOrArea == self # NoEngine /\ (self.rho = Zero \/ self.drag_area = Zero)

C11_ZeroDivisionBeforeLoop ==
    ZeroDensityOrArea =>
        /\ terminal_velocity_raises(self) = "ZeroDivisionError"
        /\ caller = "generate_trajectory" =>
               (pc = "error" /\ raised = "ZeroDivisionError" /\ N = 0)

C11_Witness ==
    /\ pc = "error"
    /\ caller = "generate_trajectory"
    /\ raised = "ZeroDivisionError"
    /\ self.rho = Zero
    /\ RLt(Zero, self.drag_area)
    /\ RLt(Zero, self.total_mass)

\* C12: an estimator whose damping ratio is 1 or more never returns an
\* oscillation series: it is rejected at construction or, at the latest,
\* when simulate is called.
C12_DampingRatioRejected ==
    (estimator # None /\ RLe(RInt(1), estimator.zeta)) => osc = None

\* C13: a Payload is constructed only with one of the shapes cuboid, cylinder
\* and sphere, and a Parachute only with one of flat, hemispherical, conical,
\* ribbon, reefed, guide_surface and square: any other shape string is
\* rejected at construction, so no object carries one.
C13_UnknownShapeRejected ==
    /\ payload # None => payload.shape \in PayloadShapes
    /\ parachute # None => parachute.shape \in ParachuteShapes

\* C14: when the query time is not greater than the last generated sample
\* time (negative queries included), the state get_state_at_time builds is
\* one of the samples, and no sample's time is closer to the query than its.
SampleAt(i) ==
    [kind |-> "state", time |-> t_values[i], altitude |-> z_values[i],
     vertical_speed |-> v_values[i], acceleration |-> a_values[i],
     horizontal_position |-> x_values[i]]

Looked == pc = "done" /\ caller = "get_state_at_time"

C14_NearestSample ==
    (Looked /\ RLe(time_query, t_values[N])) =>
        \E i \in Samples :
            /\ state = SampleAt(i)
            /\ \A j \in Samples :
                   RLe(RAbs(RSub(t_values[i], time_query)),
                       RAbs(RSub(t_values[j], time_query)))

C14_Witness ==
    /\ Looked
    /\ N >= 3
    /\ RLt(t_values[1], time_query) /\ RLt(time_query, t_values[N])
    /\ time_query \notin {t_values[i] : i \in Samples}
    /\ \E i \in 2..(N - 1) : state = SampleAt(i)

\* C15: when the query time is greater than the last generated sample time
\* (beyond t_max, or after an early ground hit), get_state_at_time builds the
\* state from the last sample, prints its warning and raises nothing; the
\* warning is printed in those cases and in no other.
C15_OutOfRange ==
    /\ pc = "lookup" => (N >= 1 /\ raised = "none")
    /\ Looked =>
        /\ raised = "none"
        /\ warned <=> RLt(t_values[N], time_query)
        /\ RLt(t_values[N], time_query) => state = SampleAt(N)

C15_Witness ==
    /\ Looked
    /\ warned
    /\ z_values[N] = Zero
    /\ RLt(time_query, self.t_max)
    /\ state = SampleAt(N)

\* C16: a generate_trajectory call with the dt of the engine's first call
\* returns the sequences the first call returned, whatever get_state_at_time
\* and terminal_velocity calls came between, and no call changes a
\* configuration field of the engine (z0, t_max, t_deploy, t_inflation,
\* horizontal_speed, g, rho, total_mass).
C16_SameSequences ==
    (pc = "done" /\ caller = "generate_trajectory"
       /\ first_run # None /\ first_run.dt = dt) =>
        /\ first_run.t = t_values
        /\ first_run.z = z_values
        /\ first_run.v = v_values
        /\ first_run.x = x_values
        /\ first_run.a = a_values

C16_Frame == self # NoEngine => self' = self

C16_Idempotent == [](C16_SameSequences) /\ [][C16_Frame]_vars

C16_Witness ==
    /\ pc = "done"
    /\ caller = "generate_trajectory"
    /\ first_run # None
    /\ first_run.dt = dt
    /\ N >= 3
    /\ first_run.x = x_values
    /\ z_values[N] = Zero

\* C17: get_inflated_drag_area(time) returns area * (time/inflation_time)^2
\* when time < inflation_time and area otherwise, and no call of
\* get_inflated_drag_area or is_fully_inflated changes the stored area.
C17_Value ==
    (pcall.kind = "get_inflated_drag_area" /\ parachute.inflation_time # Zero) =>
        /\ pcall.raised = "none"
        /\ RLt(pcall.time, parachute.inflation_time) =>
               pcall.value = RMul(parachute.area,
                                  RSq(RDiv(pcall.time, parachute.inflation_time)))
        /\ ~RLt(pcall.time, parachute.inflation_time) =>
               pcall.value = parachute.area

C17_Frame == parachute # None => parachute'.area = parachute.area

C17_InflatedDragArea == [](C17_Value) /\ [][C17_Frame]_vars

C17_Witness ==
    /\ pcall.kind = "get_inflated_drag_area"
    /\ RLt(Zero, pcall.time)
    /\ RLt(pcall.time, parachute.inflation_time)
    /\ RLt(Zero, pcall.value) /\ RLt(pcall.value, parachute.area)

\* C18: a constructed parachute's drag area is drag_coefficient times the
\* reference area, which is diameter^2 for the square shape and
\* pi*diameter^2/4 for every other shape; with diameter 10 the square
\* reference area is 100.
C18_DragArea ==
    parachute # None =>
        /\ parachute.shape = "square" =>
               parachute.area = RMul(parachute.drag_coefficient, RSq(parachute.diameter))
        /\ parachute.shape # "square" =>
               parachute.area =
                   RMul(parachute.drag_coefficient,
                        RDiv(RMul(Pi, RSq(parachute.diameter)), RInt(4)))
        /\ (parachute.shape = "square" /\ parachute.diameter = RInt(10)) =>
               RDiv(parachute.area, parachute.drag_coefficient) = RInt(100)

C18_Witness ==
    /\ parachute # None
    /\ parachute.shape = "square"
    /\ parachute.diameter = RInt(10)
    /\ parachute.area = RInt(150)

\* C19: snatch_force(delta_v, line_length, stiffness, n_lines) returns
\* n_lines * stiffness * (delta_v / (2 * line_length)), with stiffness 1e5
\* and n_lines 4 when they are left out; the result is the same whatever the
\* calculator holds and the call leaves the calculator unchanged; for
\* delta_v = 80 and line_length = 5 with the defaults it returns 3.2e6.
C19_Value ==
    (fcall # None /\ fcall.line_length # Zero) =>
        /\ fcall.raised = "none"
        /\ fcall.value =
               RMul(RMul(IF fcall.n_lines = Absent THEN RInt(4) ELSE fcall.n_lines,
                         IF fcall.stiffness = Absent THEN RInt(100000)
                                                     ELSE fcall.stiffness),
                    RDiv(fcall.delta_v, RMul(RInt(2), fcall.line_length)))
        /\ (fcall.delta_v = RInt(80) /\ fcall.line_length = RInt(5)
              /\ fcall.stiffness = Absent /\ fcall.n_lines = Absent) =>
               fcall.value = RInt(3200000)

C19_Frame == calc # None => calc' = calc

C19_SnatchForce == [](C19_Value) /\ [][C19_Frame]_vars

C19_Witness ==
    /\ fcall # None
    /\ fcall.delta_v = RInt(80) /\ fcall.line_length = RInt(5)
    /\ fcall.stiffness = Absent /\ fcall.n_lines = Absent
    /\ fcall.value = RInt(3200000)
    /\ calc.rho = Rat(11, 10)

\* C20: in every phase the horizontal position grows by exactly
\* horizontal_speed * dt per emitted sample, and the step is taken before the
\* sample is appended: the sample of index k (time k*dt, counting from 0)
\* carries (k+1) * horizontal_speed * dt, so the first sample, at t = 0,
\* carries horizontal_speed * dt.
C20_HorizontalPosition ==
    /\ Len(x_values) = N
    /\ \A i \in Samples :
        /\ t_values[i] = RMul(RInt(i - 1), dt)
        /\ x_values[i] = RMul(RInt(i), RMul(self.horizontal_speed, dt))
    /\ \A i \in Samples :
        i < N => RSub(x_values[i + 1], x_values[i]) = RMul(self.horizontal_speed, dt)

C20_Witness ==
    /\ pc = "done"
    /\ {stage_values[i] : i \in Samples} = {"free_fall", "inflation", "terminal"}
    /\ self.horizontal_speed = Rat(5, 2)
    /\ t_values[1] = Zero
    /\ x_values[1] = RMul(Rat(5, 2), dt)
    /\ x_values[N] = RMul(RInt(N), RMul(Rat(5, 2), dt))

\* C21: for every valid configuration a returned trajectory is not empty;
\* the sample of index k (counting from 0) has time k*dt, so the times start
\* at 0, strictly increase and never exceed t_max; and the first sample has
\* altitude z0 and velocity 0, also when t_deploy = 0.
C21_TimeGrid ==
    (Generated /\ PhysicallyValid) =>
        /\ pc = "done" => N >= 1
        /\ \A i \in Samples :
            /\ t_values[i] = RMul(RInt(i - 1), dt)
            /\ RLe(t_values[i], self.t_max)
            /\ i < N => RLt(t_values[i], t_values[i + 1])
        /\ N >= 1 =>
            /\ t_values[1] = Zero
            /\ z_values[1] = self.z0
            /\ v_values[1] = Zero

C21_Witness ==
    /\ pc = "done"
    /\ PhysicallyValid
    /\ self.t_deploy = Zero
    /\ N >= 3
    /\ z_values[1] = self.z0
    /\ v_values[1] = Zero
    /\ stage_values[1] = "inflation"
    /\ RLt(v_values[2], Zero)

\* C22: the time, angle and altitude sequences simulate returns have one
\* length, whether the trajectory ran to t_max or ended at the ground.
C22_EqualLengths ==
    osc # None =>
        /\ Len(osc.t) = Len(osc.theta_deg)
        /\ Len(osc.t) = Len(osc.z)

\* C23: when the 4*g cap is not active (the capped engine's min returned
\* its first argument, and the uncapped acceleration is within 4*g in
\* magnitude), ParachuteFlightSimulation returns for the same arguments and
\* the same dt the sample sequence FlightStages returned: the same times,
\* altitudes, velocities, accelerations and horizontal positions.
CapNotActive ==
    /\ twin.a_infl = RDiv(RAdd(twin.v0, twin.vt), self.t_inflation)
    /\ RLe(RAbs(a_infl), RMul(RInt(CapFactor), self.g))

C23_EnginesAgree ==
    (twin # None /\ pc = "done" /\ dt = twin.dt /\ PhysicallyValid /\ CapNotActive) =>
        /\ t_values = twin.t
        /\ z_values = twin.z
        /\ v_values = twin.v
        /\ a_values = twin.a
        /\ x_values = twin.x

\* C24: a FlightStages built from a Parachute that was constructed with a
\* mass, and a valid Payload and Environment, evaluates terminal_velocity()
\* and generate_trajectory() without an error, and the estimator can be
\* built on it: the drag area they read is an attribute the Parachute
\* constructor sets, and it is drag_coefficient times the reference area.
BuiltFromParachute ==
    /\ parachute # None /\ parachute.mass # Absent
    /\ self # NoEngine /\ "parachute" \in DOMAIN self

C24_DragAreaReadable ==
    BuiltFromParachute =>
        /\ caller = "terminal_velocity" => tv.raised = "none"
        /\ caller = "generate_trajectory" => pc # "error"
        /\ caller = "ParachuteOscillationEstimator" => estimator # None
        /\ caller # "none" => DragAreaOf(self) = parachute.area

====
